---------------------------- MODULE Spec2Model ----------------------------
(* A model of the HTTP file server of src/fileserver/fileserver.go:         *)
(* securePath (path resolution) and the GET / PUT / DELETE handlers acting  *)
(* on a POSIX-like filesystem, with requests served concurrently.           *)
(*                                                                          *)
(* A string is a sequence of one-character strings: "/a" is <<"/", "a">>.   *)
EXTENDS Integers, Sequences, FiniteSets, TLC

VARIABLES
    dataDir,     \* FileServer.dataDir
    pathIn,      \* path-resolution harness: [url, dataDir, cwd] given to securePath
    pathOut,     \* path-resolution harness: securePath's result, once it ran
    readOnly,    \* FileServer.readOnly
    allowDelete, \* FileServer.allowDelete
    load,        \* the clients' workload, fixed in a behaviour:
                 \* [overlap, targets, lens, declared]
    fs,          \* the filesystem: path -> [kind, content]
    req,         \* request slot -> the request in flight and its handler's position
    last         \* history: the request completed before the one being served,
                 \* when requests do not overlap

vars == <<dataDir, pathIn, pathOut, readOnly, allowDelete, load, fs, req, last>>

----------------------------------------------------------------------------
(* Strings (package strings)                                                *)

Sep == "/"

HasPrefix(s, p) ==
    /\ Len(p) <= Len(s)
    /\ SubSeq(s, 1, Len(p)) = p

HasSuffix(s, p) ==
    /\ Len(p) <= Len(s)
    /\ SubSeq(s, Len(s) - Len(p) + 1, Len(s)) = p

Contains(s, p) ==
    \E i \in 1..(Len(s) - Len(p) + 1) : SubSeq(s, i, i + Len(p) - 1) = p

TrimPrefix(s, p) ==
    IF HasPrefix(s, p) THEN SubSeq(s, Len(p) + 1, Len(s)) ELSE s

DotDot == <<".", ".">>

----------------------------------------------------------------------------
(* Paths (package path/filepath, Unix separator)                            *)

\* The elements of s between separators, empty elements dropped.
RECURSIVE SplitFrom(_, _, _)
SplitFrom(s, i, cur) ==
    IF i > Len(s)
    THEN IF cur = <<>> THEN <<>> ELSE <<cur>>
    ELSE IF s[i] = Sep
         THEN (IF cur = <<>> THEN <<>> ELSE <<cur>>) \o SplitFrom(s, i + 1, <<>>)
         ELSE SplitFrom(s, i + 1, Append(cur, s[i]))

Elements(s) == SplitFrom(s, 1, <<>>)

IsAbs(s) == Len(s) > 0 /\ s[1] = Sep

\* Clean's pass over the elements: "." is dropped, ".." removes the element
\* before it, is dropped at the root of a rooted path, and is kept otherwise.
RECURSIVE CleanElems(_, _, _, _)
CleanElems(elems, i, out, rooted) ==
    IF i > Len(elems) THEN out
    ELSE LET e == elems[i] IN
         IF e = <<".">> THEN CleanElems(elems, i + 1, out, rooted)
         ELSE IF e = DotDot
              THEN IF Len(out) > 0 /\ out[Len(out)] # DotDot
                   THEN CleanElems(elems, i + 1, SubSeq(out, 1, Len(out) - 1), rooted)
                   ELSE IF rooted
                        THEN CleanElems(elems, i + 1, out, rooted)
                        ELSE CleanElems(elems, i + 1, Append(out, e), rooted)
              ELSE CleanElems(elems, i + 1, Append(out, e), rooted)

RECURSIVE JoinElems(_)
JoinElems(elems) ==
    IF Len(elems) = 0 THEN <<>>
    ELSE IF Len(elems) = 1 THEN elems[1]
    ELSE elems[1] \o <<Sep>> \o JoinElems(Tail(elems))

\* filepath.Clean
Clean(s) ==
    LET out == CleanElems(Elements(s), 1, <<>>, IsAbs(s)) IN
    IF IsAbs(s) THEN <<Sep>> \o JoinElems(out)
    ELSE IF out = <<>> THEN <<".">> ELSE JoinElems(out)

\* filepath.Join of two elements: empty elements are ignored, the rest is
\* joined with a separator and cleaned.
Join(a, b) ==
    IF a = <<>> /\ b = <<>> THEN <<>>
    ELSE IF a = <<>> THEN Clean(b)
    ELSE IF b = <<>> THEN Clean(a)
    ELSE Clean(a \o <<Sep>> \o b)

\* filepath.Abs with working directory cwd
Abs(cwd, s) == IF IsAbs(s) THEN Clean(s) ELSE Join(cwd, s)

\* filepath.Dir
Dir(s) ==
    LET idx == {i \in 1..Len(s) : s[i] = Sep}
        cut == IF idx = {} THEN 0 ELSE CHOOSE i \in idx : \A j \in idx : j <= i
    IN  Clean(SubSeq(s, 1, cut))

\* filepath.Base of a cleaned path
Base(s) ==
    LET el == Elements(s) IN
    IF el = <<>> THEN (IF IsAbs(s) THEN <<Sep>> ELSE <<".">>) ELSE el[Len(el)]

----------------------------------------------------------------------------
(* securePath                                                               *)

Pending == [ok |-> FALSE, path |-> <<>>, err |-> "pending"]
Rejected(msg) == [ok |-> FALSE, path |-> <<>>, err |-> msg]
Resolved(p) == [ok |-> TRUE, path |-> p, err |-> "nil"]

\* the traversal test with its first half forgotten
TraversalCheckPrefixOnly(cleanedPath) ==
    HasPrefix(cleanedPath, <<Sep, ".", ".">>)

\* the traversal test of securePath on the cleaned path
TraversalCheck(cleanedPath) ==
    Contains(cleanedPath, DotDot) \/ HasPrefix(cleanedPath, <<Sep, ".", ".">>)

\* the containment test of securePath on the two absolute paths
OutsideCheck(absFullPath, absDataDir) == ~HasPrefix(absFullPath, absDataDir)

\* fsDataDir is the receiver's fs.dataDir
securePath(fsDataDir, cwd, urlPath) ==
    LET cleanedPath == Clean(urlPath) IN
    IF TraversalCheck(cleanedPath)
    THEN Rejected("path traversal not allowed")
    ELSE LET trimmed == TrimPrefix(cleanedPath, <<Sep>>)
             fullPath == Join(fsDataDir, trimmed)
             absDataDir == Abs(cwd, fsDataDir)
             absFullPath == Abs(cwd, fullPath)
         IN  IF OutsideCheck(absFullPath, absDataDir)
             THEN Rejected("path outside of allowed directory")
             ELSE Resolved(fullPath)

----------------------------------------------------------------------------
(* Configuration of the served instance and the inputs of the requests      *)

\* WithDataDir("/d"), in a process whose working directory is /w
DataDir == <<"/", "d">>
Cwd == <<"/", "w">>

\* New's default data directory, "./", and the path it is cleaned to: the
\* working directory
DefaultDir == <<".", "/">>
Dot == <<".">>

ServedDirs == {DataDir, DefaultDir}

\* WithMaxFileSize(MaxFileSize)
MaxFileSize == 2

Slots == {1, 2}

Root == <<"/">>

\* net/http's indexPage, "/index.html": http.ServeFile redirects a request
\* whose URL path ends with it
IndexPage == <<"/", "i", "n", "d", "e", "x", ".", "h", "t", "m", "l">>

\* the locations under the data directory that the requests can name
FsPathSeq == << <<"/", "d">>,
                <<"/", "d", "/", "a">>,
                <<"/", "d", "/", "a", "/", "b">>,
                DataDir \o IndexPage,
                Dot,
                <<"a">>,
                <<"a", "/", "b">>,
                Tail(IndexPage) >>
FsPaths == {FsPathSeq[i] : i \in 1..Len(FsPathSeq)}

\* r.URL.Path of the requests
Urls == { <<"/">>,
          <<"/", "a">>,
          <<"/", "a", "/", "b">>,
          IndexPage,
          <<"/", ".", ".", "/", "a">>,
          <<".", ".", "/", "a">> }

Methods == {"GET", "PUT", "DELETE", "POST", "OPTIONS"}

BodyLens == 0..(MaxFileSize + 2)

\* the body of a request of slot s: n bytes, each one distinct and non-zero
Body(s, n) == [i \in 1..n |-> 10 * s + i]

\* the size stat reports for a directory depends on the filesystem
DirSizes == {0, 4096}

ParentOf == [p \in FsPaths |-> Dir(p)]
NameOf == [p \in FsPaths |-> Base(p)]

----------------------------------------------------------------------------
(* The filesystem (package os): f is the path table. There are no hard      *)
(* links and no renames, so a linked regular file is known by its path; a   *)
(* file that is unlinked while a descriptor is open lives on unnamed, and   *)
(* nothing can read it: its descriptor is "orphan" and its content is not   *)
(* kept.                                                                    *)

NoNode == [kind |-> "none", content |-> <<>>]
DirNode == [kind |-> "dir", content |-> <<>>]
FileNode(c) == [kind |-> "file", content |-> c]

KindOf(f, p) ==
    IF p = Root THEN "dir"
    ELSE IF p \in FsPaths THEN f[p].kind
    ELSE "none"

ParentPath(p) == IF p \in FsPaths THEN ParentOf[p] ELSE Dir(p)

\* the error of a lookup of a missing path: ENOTDIR when an ancestor is a
\* regular file, ENOENT otherwise
RECURSIVE LookupErr(_, _)
LookupErr(f, p) ==
    LET k == KindOf(f, ParentPath(p)) IN
    IF k = "file" THEN "ENOTDIR"
    ELSE IF k = "none" THEN LookupErr(f, ParentPath(p))
    ELSE "ENOENT"

\* os.Stat: "dir", "file", or the error
Stat(f, p) == IF KindOf(f, p) # "none" THEN KindOf(f, p) ELSE LookupErr(f, p)

\* os.IsNotExist
IsNotExist(st) == st = "ENOENT"

IsErr(st) == st \in {"ENOENT", "ENOTDIR", "EISDIR", "ENOTEMPTY"}

ChildrenOf(f, p) ==
    {q \in FsPaths : q # p /\ ParentOf[q] = p /\ f[q].kind # "none"}

Under(p) == {q \in FsPaths : HasPrefix(q, p \o <<Sep>>)}

\* os.MkdirAll(p): the error, or "nil" and the table with the missing
\* directories of the chain created
RECURSIVE MkdirAllErr(_, _)
MkdirAllErr(f, p) ==
    IF p = Root THEN "nil"
    ELSE IF KindOf(f, p) = "dir" THEN "nil"
    ELSE IF KindOf(f, p) = "file" THEN "ENOTDIR"
    ELSE MkdirAllErr(f, ParentPath(p))

MkdirAll(f, p) ==
    [q \in FsPaths |->
        IF (q = p \/ HasPrefix(p, q \o <<Sep>>)) /\ f[q].kind = "none"
        THEN DirNode ELSE f[q]]

\* os.Create(p), O_RDWR|O_CREATE|O_TRUNC: the error or "nil"
CreateErr(f, p) ==
    IF KindOf(f, p) = "dir" THEN "EISDIR"
    ELSE IF KindOf(f, p) = "file" THEN "nil"
    ELSE IF KindOf(f, ParentPath(p)) = "dir" THEN "nil"
    ELSE LookupErr(f, p)

\* a write that appends, whatever the offset of the descriptor
WriteAppend(content, off, bytes) == content \o bytes

\* a write of bytes at offset off of a file: a hole is filled with zeros
WriteAt(content, off, bytes) ==
    LET n == IF Len(content) > off + Len(bytes) THEN Len(content)
             ELSE off + Len(bytes)
    IN  [i \in 1..n |->
            IF i > off /\ i <= off + Len(bytes) THEN bytes[i - off]
            ELSE IF i <= Len(content) THEN content[i]
            ELSE 0]

\* os.Remove(p): unlink of a file, rmdir of an empty directory; neither
\* system call removes "."
RemoveErr(f, p) ==
    IF p = Dot THEN "EINVAL"
    ELSE IF KindOf(f, p) = "none" THEN LookupErr(f, p)
    ELSE IF KindOf(f, p) = "dir" /\ ChildrenOf(f, p) # {} THEN "ENOTEMPTY"
    ELSE "nil"

\* a removal that removes nothing
RemoveNothing(f, p) == f

Remove(f, p) ==
    IF RemoveErr(f, p) = "nil" /\ p \in FsPaths
    THEN [f EXCEPT ![p] = NoNode] ELSE f

\* a removal of the directory itself that forgets what lies under it
RemoveAllTopOnly(f, p) ==
    [q \in FsPaths |-> IF q = p THEN NoNode ELSE f[q]]

\* package os endsWithDot: the path is "." or its last element is "."
endsWithDot(p) == p = Dot \/ HasSuffix(p, <<Sep, ".">>)

\* os.RemoveAll(p) refuses a path that ends with "."
RemoveAllErr(p) == IF endsWithDot(p) THEN "EINVAL" ELSE "nil"

\* os.RemoveAll(p): p and everything under it; a missing p is no error
RemoveAll(f, p) ==
    [q \in FsPaths |-> IF q = p \/ q \in Under(p) THEN NoNode ELSE f[q]]

\* the content of the regular file at p
ContentOf(f, p) == f[p].content

----------------------------------------------------------------------------
(* Requests                                                                 *)

NoOut == [kind |-> "none"]

IdleReq ==
    [method |-> "", url |-> <<>>, recursive |-> FALSE, bodyLen |-> 0,
     contentLength |-> 0, pc |-> "idle", resolved |-> FALSE, path |-> <<>>,
     statKind |-> "", isNew |-> FALSE, existed |-> FALSE, fd |-> "closed",
     written |-> 0, status |-> 0, out |-> NoOut, ops |-> {}]

\* a request as the transport hands it to ServeHTTP
NewReq(m, u, rec, n, cl) ==
    [IdleReq EXCEPT !.method = m, !.url = u, !.recursive = rec, !.bodyLen = n,
                    !.contentLength = cl, !.pc = "recv"]

\* a filesystem call of a request, recorded with the path it is given
Op(r, name, p) == [r EXCEPT !.ops = @ \cup {[op |-> name, path |-> p]}]

\* w.WriteHeader(status) and the body: the request is over
Respond(r, status, out) ==
    [r EXCEPT !.pc = "done", !.status = status, !.out = out, !.fd = "closed"]

\* writeError
writeError(r, statusCode) == Respond(r, statusCode, [kind |-> "error"])

\* securePath of an instance that serves d, on a request's URL path
ResolveUrl == [d \in ServedDirs |-> [u \in Urls |-> securePath(d, Cwd, u)]]

InFlight(s) == req[s].pc \notin {"idle", "done"}

NoLast == [method |-> "", url |-> <<>>, path |-> <<>>, status |-> 0,
           bodyLen |-> 0]

\* what is remembered of a completed request: a PUT that created its target,
\* a DELETE that removed its target; nothing of any other request
Summary(r) ==
    IF (r.method = "PUT" /\ r.status = 201) \/ (r.method = "DELETE" /\ r.status = 200)
    THEN [method |-> r.method, url |-> r.url, path |-> r.path,
          status |-> r.status, bodyLen |-> r.bodyLen]
    ELSE NoLast

\* the transport delivers a request to a free slot; the request that the slot
\* served before becomes the last one
Start(s) ==
    /\ ~InFlight(s)
    /\ load.overlap \/ s = 1
    /\ \E t \in load.targets :
        LET m == t[1]
            u == t[2]
        IN  \/ /\ m = "PUT"
               /\ \E n \in load.lens :
                    \E cl \in {-1} \cup (IF load.declared THEN {n} ELSE {}) :
                        req' = [req EXCEPT ![s] = NewReq(m, u, FALSE, n, cl)]
            \/ /\ m = "DELETE"
               /\ \E rec \in BOOLEAN :
                    req' = [req EXCEPT ![s] = NewReq(m, u, rec, 0, 0)]
            \/ /\ m \notin {"PUT", "DELETE"}
               /\ req' = [req EXCEPT ![s] = NewReq(m, u, FALSE, 0, 0)]
    /\ last' = IF req[s].pc = "done" /\ ~load.overlap
               THEN Summary(req[s]) ELSE last
    /\ UNCHANGED <<dataDir, pathIn, pathOut, readOnly, allowDelete, load, fs>>

Local == <<dataDir, pathIn, pathOut, readOnly, allowDelete, load>>

\* a step of slot s that touches no file
OnlyReq(s, r) ==
    /\ req' = [req EXCEPT ![s] = r]
    /\ UNCHANGED <<fs, last>>
    /\ UNCHANGED Local

\* a step of slot s that leaves the path table f: the descriptors that were
\* open on a file the step unlinked are orphans from now on
Step(s, r, f) ==
    /\ req' = [t \in Slots |->
                LET x == IF t = s THEN r ELSE req[t] IN
                IF x.fd = "open" /\ KindOf(f, x.path) # "file"
                THEN [x EXCEPT !.fd = "orphan"] ELSE x]
    /\ fs' = f
    /\ UNCHANGED last
    /\ UNCHANGED Local

----------------------------------------------------------------------------
(* ServeHTTP: the dispatch on the method and each handler's first step      *)

\* the OPTIONS test left out
IsOptionsNever(m) == FALSE

IsOptions(m) == m = "OPTIONS"

optionsRequest(s) ==
    /\ req[s].pc = "recv"
    /\ IsOptions(req[s].method)
    /\ OnlyReq(s, Respond(req[s], 200, NoOut))

methodNotAllowed(s) ==
    /\ req[s].pc = "recv"
    /\ ~IsOptions(req[s].method)
    /\ req[s].method \notin {"GET", "PUT", "DELETE"}
    /\ OnlyReq(s, writeError(req[s], 405))

\* the request with the URL path itself where securePath's result belongs
WithRawPath(r, res) == [r EXCEPT !.resolved = res.ok, !.path = r.url]

\* the request with securePath's result in it
WithPath(r, res) == [r EXCEPT !.resolved = res.ok, !.path = res.path]

----------------------------------------------------------------------------
(* getRequest                                                               *)

getRequest(s) ==
    /\ req[s].pc = "recv"
    /\ req[s].method = "GET"
    /\ LET res == ResolveUrl[dataDir][req[s].url] IN
       IF ~res.ok
       THEN OnlyReq(s, writeError(req[s], 400))
       ELSE OnlyReq(s, [WithPath(req[s], res) EXCEPT !.pc = "stat"])

\* the status for a failed os.Stat: not found, or an internal error
StatErrStatus(st) == IF IsNotExist(st) THEN 404 ELSE 500

getStat(s) ==
    /\ req[s].pc = "stat"
    /\ req[s].method = "GET"
    /\ LET st == Stat(fs, req[s].path)
           r == [Op(req[s], "stat", req[s].path) EXCEPT !.statKind = st]
       IN  IF IsErr(st)
           THEN OnlyReq(s, writeError(r, StatErrStatus(st)))
           ELSE OnlyReq(s, [r EXCEPT !.pc = "serve"])

\* the FileInfo of the entry at path q; dsz is the size stat gives a directory
EntryInfo(f, q, dsz) ==
    [name |-> NameOf[q],
     isDir |-> f[q].kind = "dir",
     size |-> IF f[q].kind = "dir" THEN dsz ELSE Len(f[q].content)]

RECURSIVE ListFrom(_, _, _, _)
ListFrom(f, p, dsz, i) ==
    IF i > Len(FsPathSeq) THEN <<>>
    ELSE LET q == FsPathSeq[i] IN
         (IF q # p /\ ParentOf[q] = p /\ f[q].kind # "none"
          THEN <<EntryInfo(f, q, dsz)>> ELSE <<>>)
            \o ListFrom(f, p, dsz, i + 1)

\* a total that counts the directories too
RECURSIVE TotalSizeOfAll(_)
TotalSizeOfAll(files) ==
    IF files = <<>> THEN 0
    ELSE files[1].size + TotalSizeOfAll(Tail(files))

RECURSIVE TotalSize(_)
TotalSize(files) ==
    IF files = <<>> THEN 0
    ELSE (IF ~files[1].isDir THEN files[1].size ELSE 0) + TotalSize(Tail(files))

\* the DirectoryResponse of serveDirectory
DirectoryResponse(f, p, dsz) ==
    LET files == ListFrom(f, p, dsz, 1) IN
    [kind |-> "listing", files |-> files,
     totalSize |-> TotalSize(files), count |-> Len(files)]

serveDirectory(s) ==
    /\ req[s].pc = "serve"
    /\ req[s].statKind = "dir"
    /\ LET r == Op(req[s], "readdir", req[s].path) IN
       IF KindOf(fs, req[s].path) # "dir"
       THEN OnlyReq(s, writeError(r, 500))
       ELSE \E dsz \in DirSizes :
              OnlyReq(s, Respond(r, 200,
                         DirectoryResponse(fs, req[s].path, dsz)))

\* net/http containsDotDot: a ".." element in the URL path
containsDotDot(u) == \E i \in 1..Len(Elements(u)) : Elements(u)[i] = DotDot

\* http.ServeFile
serveFile(s) ==
    /\ req[s].pc = "serve"
    /\ req[s].statKind = "file"
    /\ IF containsDotDot(req[s].url)
       THEN OnlyReq(s, writeError(req[s], 400))
       ELSE IF HasSuffix(req[s].url, IndexPage)
       THEN OnlyReq(s, Respond(req[s], 301, NoOut))
       ELSE LET r == Op(req[s], "serve", req[s].path)
                st == Stat(fs, req[s].path)
            IN  IF IsErr(st)
                THEN OnlyReq(s, writeError(r, StatErrStatus(st)))
                ELSE IF st = "dir"
                THEN IF ~HasSuffix(req[s].url, <<Sep>>)
                     THEN OnlyReq(s, Respond(r, 301, NoOut))
                     ELSE OnlyReq(s, Respond(r, 200, [kind |-> "html"]))
                ELSE LET c == ContentOf(fs, req[s].path) IN
                     OnlyReq(s, Respond(r, 200,
                         [kind |-> "file", content |-> c, contentLength |-> Len(c)]))

----------------------------------------------------------------------------
(* putRequest                                                               *)

\* the read-only test left out
PutForbiddenNever == FALSE

\* the read-only test of putRequest
PutForbidden == readOnly

\* the pre-check of the declared length left out
DeclaredTooLargeNever(contentLength) == FALSE

\* the pre-check of the declared length
DeclaredTooLarge(contentLength) == contentLength > MaxFileSize

putRequest(s) ==
    /\ req[s].pc = "recv"
    /\ req[s].method = "PUT"
    /\ IF PutForbidden
       THEN OnlyReq(s, writeError(req[s], 403))
       ELSE LET res == ResolveUrl[dataDir][req[s].url] IN
            IF ~res.ok
            THEN OnlyReq(s, writeError(req[s], 400))
            ELSE IF DeclaredTooLarge(req[s].contentLength)
            THEN OnlyReq(s, writeError(WithPath(req[s], res), 413))
            ELSE OnlyReq(s, [WithPath(req[s], res) EXCEPT !.pc = "mkdir"])

putMkdirAll(s) ==
    /\ req[s].pc = "mkdir"
    /\ LET dir == Dir(req[s].path)
           r == Op(req[s], "mkdir", dir)
       IN  IF MkdirAllErr(fs, dir) # "nil"
           THEN OnlyReq(s, writeError(r, 500))
           ELSE Step(s, [r EXCEPT !.pc = "stat"], MkdirAll(fs, dir))

\* isNew := os.IsNotExist(err) of the os.Stat before the create
IsNew(st) == IsNotExist(st)

putStat(s) ==
    /\ req[s].pc = "stat"
    /\ req[s].method = "PUT"
    /\ LET r == Op(req[s], "stat", req[s].path) IN
       OnlyReq(s, [r EXCEPT !.statKind = Stat(fs, req[s].path),
                            !.isNew = IsNew(Stat(fs, req[s].path)),
                            !.pc = "create"])

putCreate(s) ==
    /\ req[s].pc = "create"
    /\ LET p == req[s].path
           r == Op(req[s], "create", p)
       IN  IF CreateErr(fs, p) # "nil"
           THEN OnlyReq(s, writeError(r, 500))
           ELSE Step(s, [r EXCEPT !.fd = "open", !.pc = "copy",
                                  !.existed = KindOf(fs, p) = "file"],
                     [fs EXCEPT ![p] = FileNode(<<>>)])

\* a copy without a limit below the length of the longest body
CopyLimitWholeBody == MaxFileSize + 3

\* io.CopyN(file, r.Body, maxFileSize+1) reads no more than this many bytes
CopyLimit == MaxFileSize + 1

\* what is left to copy: up to the limit, and up to the end of the body
CopyLeft(r) ==
    IF r.bodyLen < CopyLimit THEN r.bodyLen - r.written
    ELSE CopyLimit - r.written

\* one Read of the body and one Write to the file, of k bytes
putCopy(s) ==
    /\ req[s].pc = "copy"
    /\ CopyLeft(req[s]) > 0
    /\ \E k \in 1..CopyLeft(req[s]) :
        LET r == Op(req[s], "write", req[s].path)
            bytes == SubSeq(Body(s, req[s].bodyLen), r.written + 1, r.written + k)
        IN  IF r.fd = "open"
            THEN Step(s, [r EXCEPT !.written = @ + k],
                      [fs EXCEPT ![r.path].content = WriteAt(@, r.written, bytes)])
            ELSE OnlyReq(s, [r EXCEPT !.written = @ + k])

\* the size test one byte too strict
WrittenTooLargeOffByOne(written) == written >= MaxFileSize

\* written > fs.maxFileSize
WrittenTooLarge(written) == written > MaxFileSize

\* the two statuses of a successful PUT exchanged
PutStatusSwapped(isNew) == IF isNew THEN 200 ELSE 201

\* the status of a successful PUT
PutStatus(isNew) == IF isNew THEN 201 ELSE 200

\* the copy has ended: roll back an over-size file, or answer
putFinish(s) ==
    /\ req[s].pc = "copy"
    /\ CopyLeft(req[s]) = 0
    /\ IF WrittenTooLarge(req[s].written)
       THEN LET r == Op(req[s], "remove", req[s].path) IN
            Step(s, writeError(r, 413), Remove(fs, req[s].path))
       ELSE OnlyReq(s, Respond(req[s], PutStatus(req[s].isNew),
                               [kind |-> "upload", size |-> req[s].written]))

----------------------------------------------------------------------------
(* deleteRequest                                                            *)

\* the allowDelete test left out
DeleteForbiddenReadOnlyOnly == readOnly

\* the two configuration tests of deleteRequest
DeleteForbidden == readOnly \/ ~allowDelete

deleteRequest(s) ==
    /\ req[s].pc = "recv"
    /\ req[s].method = "DELETE"
    /\ IF DeleteForbidden
       THEN OnlyReq(s, writeError(req[s], 403))
       ELSE LET res == ResolveUrl[dataDir][req[s].url] IN
            IF ~res.ok
            THEN OnlyReq(s, writeError(req[s], 400))
            ELSE OnlyReq(s, [WithPath(req[s], res) EXCEPT !.pc = "stat"])

deleteStat(s) ==
    /\ req[s].pc = "stat"
    /\ req[s].method = "DELETE"
    /\ LET st == Stat(fs, req[s].path)
           r == [Op(req[s], "stat", req[s].path) EXCEPT !.statKind = st]
       IN  IF IsErr(st)
           THEN OnlyReq(s, writeError(r, StatErrStatus(st)))
           ELSE OnlyReq(s, [r EXCEPT !.pc = "remove"])

\* os.RemoveAll for every directory, whatever the query says
UseRemoveAllAnyDir(statKind, recursive) == statKind = "dir"

\* os.Remove for every directory, whatever the query says
UseRemoveAllNever(statKind, recursive) == FALSE

\* r.URL.Query().Get("recursive") == "true", for a directory
UseRemoveAll(statKind, recursive) == statKind = "dir" /\ recursive

deleteRemove(s) ==
    /\ req[s].pc = "remove"
    /\ LET p == req[s].path IN
       IF UseRemoveAll(req[s].statKind, req[s].recursive)
       THEN LET r == Op(req[s], "removeall", p) IN
            IF RemoveAllErr(p) # "nil"
            THEN OnlyReq(s, writeError(r, 500))
            ELSE Step(s, Respond(r, 200, [kind |-> "deleted"]),
                      RemoveAll(fs, p))
       ELSE LET r == Op(req[s], "remove", p) IN
            IF RemoveErr(fs, p) # "nil"
            THEN OnlyReq(s, writeError(r, 500))
            ELSE Step(s, Respond(r, 200, [kind |-> "deleted"]),
                      Remove(fs, p))

----------------------------------------------------------------------------
(* The server                                                               *)

NoPath == [url |-> <<>>, dataDir |-> <<>>, cwd |-> <<>>]

\* the server after New(...): the data directory and the working directory
\* exist and are empty
InitServer ==
    /\ pathIn = NoPath
    /\ pathOut = Pending
    /\ fs = [p \in FsPaths |-> IF p \in {DataDir, Dot} THEN DirNode ELSE NoNode]
    /\ req = [s \in Slots |-> IdleReq]
    /\ last = NoLast

\* one connection: the requests come one after the other
Init ==
    /\ InitServer
    /\ dataDir = DataDir
    /\ readOnly \in BOOLEAN
    /\ allowDelete \in BOOLEAN
    /\ load = [overlap |-> FALSE, targets |-> Methods \X Urls,
               lens |-> BodyLens,
               declared |-> TRUE]

\* two connections to a writable server that allows deletes, which list the
\* data directory and read, write and delete one file of it, and send their
\* bodies chunked (no declared length): the requests overlap
ConcTargets ==
    {<<"GET", <<"/">> >>} \cup {<<m, <<"/", "a">> >> : m \in Methods}
ConcLens == 0..(MaxFileSize + 1)

InitConc ==
    /\ InitServer
    /\ dataDir = DataDir
    /\ readOnly = FALSE
    /\ allowDelete = TRUE
    /\ load = [overlap |-> TRUE, targets |-> ConcTargets, lens |-> ConcLens,
               declared |-> FALSE]

Next ==
    \E s \in Slots :
        \/ Start(s)
        \/ optionsRequest(s)
        \/ methodNotAllowed(s)
        \/ getRequest(s)
        \/ getStat(s)
        \/ serveDirectory(s)
        \/ serveFile(s)
        \/ putRequest(s)
        \/ putMkdirAll(s)
        \/ putStat(s)
        \/ putCreate(s)
        \/ putCopy(s)
        \/ putFinish(s)
        \/ deleteRequest(s)
        \/ deleteStat(s)
        \/ deleteRemove(s)

Spec == Init /\ [][Next]_vars

SpecConc == InitConc /\ [][Next]_vars

----------------------------------------------------------------------------
(* securePath alone, on every short URL path, under several data            *)
(* directories and working directories                                      *)

MaxUrlLen == 5

PathChars == {"/", ".", "a"}

RECURSIVE StringsUpTo(_)
StringsUpTo(n) ==
    IF n = 0 THEN {<<>>}
    ELSE LET shorter == StringsUpTo(n - 1) IN
         shorter \cup {Append(t, c) : t \in {x \in shorter : Len(x) = n - 1},
                                      c \in PathChars}

UrlPaths == StringsUpTo(MaxUrlLen)

\* New's default "./", and what WithDataDir stores: a cleaned path
DataDirs == { <<".", "/">>, <<".">>, <<"a">>, <<".", ".">>,
              <<"/">>, <<"/", "a">>, <<"/", "a", "/", "a">> }

Cwds == { <<"/">>, <<"/", "a">> }

InitPath ==
    /\ pathIn \in [url : UrlPaths, dataDir : DataDirs, cwd : Cwds]
    /\ pathOut = Pending
    /\ dataDir = DataDir
    /\ readOnly = FALSE
    /\ allowDelete = TRUE
    /\ load = [overlap |-> FALSE, targets |-> {}, lens |-> {}, declared |-> FALSE]
    /\ fs = [p \in FsPaths |-> IF p \in {DataDir, Dot} THEN DirNode ELSE NoNode]
    /\ req = [s \in Slots |-> IdleReq]
    /\ last = NoLast

resolve ==
    /\ pathOut = Pending
    /\ pathOut' = securePath(pathIn.dataDir, pathIn.cwd, pathIn.url)
    /\ UNCHANGED <<dataDir, pathIn, readOnly, allowDelete, load, fs, req, last>>

NextPath == resolve

SpecPath == InitPath /\ [][NextPath]_vars

----------------------------------------------------------------------------
(* Properties of securePath                                                 *)

PathDone == pathOut.err # "pending"

\* C1: every request path with a ".." element, wherever it stands, is
\* rejected by securePath (so that the handlers answer 400 and touch no file).
C1_DotDotRejected ==
    (PathDone /\ containsDotDot(pathIn.url)) => ~pathOut.ok

\* p is root itself, or root followed by a separator and further elements
Contained(p, root) ==
    \/ p = root
    \/ HasPrefix(p, root \o <<Sep>>)
    \/ root = <<Sep>> /\ IsAbs(p)

\* C2: whenever securePath succeeds, the absolute form of the path it returns
\* is the absolute data directory or lies under it; it never lies in a sibling
\* directory whose name only starts with the data directory's name.
C2_Containment ==
    (PathDone /\ pathOut.ok) =>
        Contained(Abs(pathIn.cwd, pathOut.path), Abs(pathIn.cwd, pathIn.dataDir))

\* a path that climbs out of the served directory /a and down again resolves
\* to a path under it
C2_Witness ==
    /\ pathOut.ok
    /\ pathIn.dataDir = <<"/", "a">>
    /\ pathIn.url = <<"/", ".", ".", "/", "a">>
    /\ pathOut.path = <<"/", "a", "/", "a">>

----------------------------------------------------------------------------
(* Properties of the handlers, requests one after the other                 *)

Done(s) == req[s].pc = "done"

Did(s, name) == \E o \in req[s].ops : o.op = name

\* C3: a request calls the filesystem only after securePath succeeded for it,
\* and only on the path securePath returned (os.MkdirAll: on its directory).
C3_ResolvedFirst ==
    \A s \in Slots : \A o \in req[s].ops :
        LET res == ResolveUrl[dataDir][req[s].url] IN
        /\ req[s].resolved
        /\ res.ok
        /\ o.path = IF o.op = "mkdir" THEN Dir(res.path) ELSE res.path

\* a PUT of /a/b has made the directory, created the file and written to it
C3_Witness ==
    \E s \in Slots :
        /\ Done(s) /\ req[s].method = "PUT" /\ req[s].status = 201
        /\ req[s].url = <<"/", "a", "/", "b">>
        /\ Did(s, "mkdir") /\ Did(s, "create") /\ Did(s, "write")

\* C4: a PUT that streams a body of exactly maxFileSize bytes succeeds with
\* that size and content; a PUT that streams a body of maxFileSize+1 bytes or
\* more is answered 413 and leaves no file at its path.
C4_SizeBoundary ==
    \A s \in Slots :
        (Done(s) /\ req[s].method = "PUT" /\ Did(s, "write")) =>
            /\ req[s].bodyLen = MaxFileSize =>
                /\ req[s].status \in {200, 201}
                /\ req[s].out = [kind |-> "upload", size |-> MaxFileSize]
                /\ fs[req[s].path] = FileNode(Body(s, MaxFileSize))
            /\ req[s].bodyLen > MaxFileSize =>
                /\ req[s].status = 413
                /\ KindOf(fs, req[s].path) = "none"

\* a PUT of maxFileSize bytes has created /a, and a PUT of maxFileSize+1 bytes
\* to /a has then been answered 413
C4_Witness ==
    /\ last.method = "PUT" /\ last.status = 201 /\ last.bodyLen = MaxFileSize
    /\ last.path = req[1].path
    /\ Done(1) /\ req[1].method = "PUT" /\ req[1].bodyLen = MaxFileSize + 1
    /\ req[1].written = MaxFileSize + 1
    /\ req[1].status = 413

\* the step of slot s that takes its request from ServeHTTP into the handler
Enters(s, m) ==
    /\ req[s].method = m
    /\ req[s].pc = "recv"
    /\ req'[s] # req[s]

\* C5: on a read-only server the handler of a PUT answers 403 at once and
\* leaves the filesystem as it is.
C5_ReadOnlyPut ==
    [][\A s \in Slots :
        (readOnly /\ Enters(s, "PUT")) =>
            /\ req'[s].pc = "done"
            /\ req'[s].status = 403
            /\ req'[s].ops = {}
            /\ fs' = fs]_vars

C5_Witness ==
    /\ readOnly
    /\ Done(1) /\ req[1].method = "PUT" /\ req[1].status = 403
    /\ req[1].url = <<"/", "a", "/", "b">> /\ req[1].bodyLen = 1
    /\ KindOf(fs, <<"/", "d", "/", "a">>) = "none"

\* C6: on a server that is read-only or has allowDelete off, the handler of a
\* DELETE answers 403 at once and removes nothing.
C6_DeleteForbidden ==
    [][\A s \in Slots :
        ((readOnly \/ ~allowDelete) /\ Enters(s, "DELETE")) =>
            /\ req'[s].pc = "done"
            /\ req'[s].status = 403
            /\ req'[s].ops = {}
            /\ fs' = fs]_vars

\* a DELETE of an existing file is refused and the file is still there
C6_Witness ==
    /\ ~allowDelete
    /\ Done(1) /\ req[1].method = "DELETE" /\ req[1].status = 403
    /\ req[1].url = <<"/", "a">>
    /\ KindOf(fs, <<"/", "d", "/", "a">>) = "file"

\* C7: a PUT of a body within the limit to a path that did not exist answers
\* 201 with the body's size, and the GET of the same request path that follows
\* it answers 200 with the bytes of that body and their number.
C7_RoundTrip ==
    /\ (Done(1) /\ req[1].method = "PUT" /\ req[1].status = 201) =>
           /\ req[1].out = [kind |-> "upload", size |-> req[1].bodyLen]
           /\ KindOf(fs, Dir(req[1].path)) = "dir"
           /\ fs[req[1].path] = FileNode(Body(1, req[1].bodyLen))
    /\ (/\ last.method = "PUT" /\ last.status = 201
        /\ Done(1) /\ req[1].method = "GET"
        /\ req[1].url = last.url) =>
           /\ req[1].status = 200
           /\ req[1].out = [kind |-> "file",
                            content |-> Body(1, last.bodyLen),
                            contentLength |-> last.bodyLen]

\* C10: on a server that allows deletes, the DELETE of a path at which there
\* is neither a file nor a directory is answered 404 and leaves the filesystem
\* as it is; the DELETE that repeats a successful DELETE of the same path is
\* answered 404.
C10_DeleteIdempotent ==
    /\ [][\A s \in Slots :
            (/\ req[s].method = "DELETE" /\ req[s].pc = "stat"
             /\ req'[s] # req[s]
             /\ KindOf(fs, req[s].path) = "none") =>
                /\ req'[s].pc = "done"
                /\ req'[s].status = 404
                /\ fs' = fs]_vars
    /\ [](( /\ last.method = "DELETE" /\ last.status = 200
            /\ Done(1) /\ req[1].method = "DELETE"
            /\ req[1].path = last.path ) => req[1].status = 404)

----------------------------------------------------------------------------
(* Properties of overlapping requests                                       *)

PutOk(s) ==
    /\ Done(s)
    /\ req[s].method = "PUT"
    /\ req[s].status \in {200, 201}

\* C8: a successful PUT answers 201 exactly when its target did not exist
\* immediately before the request created or truncated it, whatever the
\* other requests on the path do meanwhile.
C8_CreatedIffNew ==
    \A s \in Slots :
        PutOk(s) => (req[s].status = 201 <=> ~req[s].existed)

\* C8, amended: a successful PUT answers 201 exactly when the os.Stat it made
\* before the create found no such file, and 200 otherwise.
C8_CreatedIffStatMissing ==
    \A s \in Slots :
        PutOk(s) => (req[s].status = 201 <=> req[s].statKind = "ENOENT")

\* a PUT has answered 201 although the file was there when it opened it
C8_Witness ==
    \E s \in Slots :
        PutOk(s) /\ req[s].status = 201 /\ req[s].existed

BothPutOk ==
    /\ PutOk(1)
    /\ PutOk(2)
    /\ req[1].path = req[2].path

\* C9: when two PUTs of the same path have both succeeded, the file holds the
\* whole body of one of them.
C9_LastWriterWins ==
    BothPutOk =>
        fs[req[1].path] \in {FileNode(Body(s, req[s].bodyLen)) : s \in Slots}

\* C9, amended: when two PUTs of the same path have both succeeded, the file
\* is no longer than the longer body, and each of its bytes is the byte of
\* one of the two bodies at that offset, or the zero of a hole.
C9_ByteWise ==
    BothPutOk =>
        LET node == fs[req[1].path] IN
        /\ node.kind = "file"
        /\ \E s \in Slots : Len(node.content) <= req[s].bodyLen
        /\ \A i \in 1..Len(node.content) :
              \/ node.content[i] = 0
              \/ \E s \in Slots :
                    /\ i <= req[s].bodyLen
                    /\ node.content[i] = Body(s, req[s].bodyLen)[i]

\* two PUTs of the same path have both succeeded and the file holds neither body
C9_Witness ==
    /\ BothPutOk
    /\ fs[req[1].path] \notin {FileNode(Body(s, req[s].bodyLen)) : s \in Slots}

----------------------------------------------------------------------------
(* Properties of DELETE on directories                                      *)

\* the step of slot s that removes what its DELETE found
Removes(s) ==
    /\ req[s].method = "DELETE"
    /\ req[s].pc = "remove"
    /\ req'[s] # req[s]

\* every path but p and what lies under p is in f2 what it was in f1
SameOutside(f1, f2, p) ==
    \A q \in FsPaths : (q # p /\ q \notin Under(p)) => f2[q] = f1[q]

AtOrUnder(q, p) == q = p \/ q \in Under(p)

----------------------------------------------------------------------------
(* Properties of the dispatch on the method                                 *)

\* the step of slot s that ServeHTTP takes for a method it has no handler for
EntersOther(s) ==
    /\ req[s].pc = "recv"
    /\ req[s].method \notin {"GET", "PUT", "DELETE"}
    /\ req'[s] # req[s]

\* the request of slot s is over after the step, without a path resolution
\* and without a filesystem call
EndsUntouched(s) ==
    /\ req'[s].pc = "done"
    /\ ~req'[s].resolved
    /\ req'[s].path = <<>>
    /\ req'[s].ops = {}
    /\ fs' = fs

\* C13: every request whose method is not GET, PUT or DELETE, OPTIONS
\* included, is answered 405 with an error body, and resolves no path and
\* calls no filesystem operation.
C13_All405 ==
    [][\A s \in Slots :
        EntersOther(s) =>
            /\ EndsUntouched(s)
            /\ req'[s].status = 405
            /\ req'[s].out = [kind |-> "error"]]_vars

\* C13, amended: a request whose method is OPTIONS is answered 200 with no
\* body; every request whose method is none of GET, PUT, DELETE and OPTIONS is
\* answered 405 with an error body; neither resolves a path nor calls a
\* filesystem operation.
C13_OptionsOk ==
    [][\A s \in Slots :
        EntersOther(s) =>
            /\ EndsUntouched(s)
            /\ IF req[s].method = "OPTIONS"
               THEN req'[s].status = 200 /\ req'[s].out = NoOut
               ELSE req'[s].status = 405 /\ req'[s].out = [kind |-> "error"]]_vars

\* an OPTIONS request for an existing file has been answered 200
C13_Witness ==
    /\ Done(1) /\ req[1].method = "OPTIONS"
    /\ req[1].url = <<"/", "a">>
    /\ req[1].status = 200
    /\ KindOf(fs, <<"/", "d", "/", "a">>) = "file"

----------------------------------------------------------------------------
(* Properties of the size limit of PUT                                      *)

\* C14: a PUT whose declared length exceeds maxFileSize ends in the step
\* that enters its handler, with 413 when the server is writable and the path
\* resolves (403 and 400 come first otherwise); it creates no directory,
\* leaves an existing target as it is and reads no byte of the body.
C14_DeclaredTooLarge ==
    [][\A s \in Slots :
        (Enters(s, "PUT") /\ req[s].contentLength > MaxFileSize) =>
            /\ req'[s].pc = "done"
            /\ req'[s].status =
                  IF readOnly THEN 403
                  ELSE IF ~securePath(dataDir, Cwd, req[s].url).ok THEN 400
                  ELSE 413
            /\ req'[s].out = [kind |-> "error"]
            /\ req'[s].ops = {}
            /\ req'[s].written = 0
            /\ fs' = fs]_vars

\* /a/b exists with a body; a PUT of /a/b that declares maxFileSize+1 bytes has
\* been answered 413 and the file is there as it was
C14_Witness ==
    /\ last.method = "PUT" /\ last.status = 201 /\ last.bodyLen = 1
    /\ last.path = <<"/", "d", "/", "a", "/", "b">>
    /\ Done(1) /\ req[1].method = "PUT" /\ req[1].path = last.path
    /\ req[1].contentLength = MaxFileSize + 1
    /\ req[1].status = 413
    /\ fs[last.path] = FileNode(Body(1, 1))

----------------------------------------------------------------------------
(* Properties of the directory listing                                      *)

\* the slot has answered a GET with a directory listing
Listed(s) ==
    /\ Done(s)
    /\ req[s].method = "GET"
    /\ req[s].status = 200
    /\ req[s].out.kind = "listing"

\* the sum of the size fields of the entries of files at the indices in idx
RECURSIVE SumSizes(_, _)
SumSizes(files, idx) ==
    IF idx = {} THEN 0
    ELSE LET i == CHOOSE j \in idx : TRUE
         IN  files[i].size + SumSizes(files, idx \ {i})

\* C15: in every directory listing, totalSize is the sum of the sizes of the
\* entries with isDir false, and count is the number of entries of files.
C15_ListingTotals ==
    \A s \in Slots :
        Listed(s) =>
            LET files == req[s].out.files IN
            /\ req[s].out.totalSize =
                  SumSizes(files, {i \in 1..Len(files) : ~files[i].isDir})
            /\ req[s].out.count = Len(files)

\* a listing of the root with the directory a, of size 4096, and the file
\* index.html, of 2 bytes
C15_Witness ==
    /\ Listed(1)
    /\ req[1].url = <<"/">>
    /\ req[1].out.count = 2
    /\ req[1].out.totalSize = 2
    /\ \E i \in 1..2 : req[1].out.files[i].isDir /\ req[1].out.files[i].size = 4096

\* C16: in every directory listing, each entry that is a directory has size 0.
C16_DirSizeZero ==
    \A s \in Slots :
        Listed(s) =>
            \A i \in 1..Len(req[s].out.files) :
                req[s].out.files[i].isDir => req[s].out.files[i].size = 0

\* C18: a PUT that passed the pre-check of the declared length and streamed
\* more than maxFileSize bytes is answered 413 and leaves nothing at its
\* path, also when a file was there before (its old content is not put
\* back), while the directories above the path, made by the request or not,
\* are still there.
C18_RollbackRemoves ==
    \A s \in Slots :
        (/\ Done(s) /\ req[s].method = "PUT"
         /\ Did(s, "create")
         /\ req[s].written > MaxFileSize) =>
            /\ req[s].status = 413
            /\ fs[req[s].path] = NoNode
            /\ Stat(fs, req[s].path) = "ENOENT"
            /\ KindOf(fs, Dir(req[s].path)) = "dir"

\* /a/b held one byte; a PUT of maxFileSize+1 bytes to /a/b was answered 413
\* and /a is left without it
C18_Witness ==
    /\ last.method = "PUT" /\ last.status = 201 /\ last.bodyLen = 1
    /\ last.path = <<"/", "d", "/", "a", "/", "b">>
    /\ Done(1) /\ req[1].method = "PUT" /\ req[1].path = last.path
    /\ req[1].existed
    /\ req[1].written = MaxFileSize + 1
    /\ req[1].status = 413
    /\ KindOf(fs, last.path) = "none"
    /\ KindOf(fs, <<"/", "d", "/", "a">>) = "dir"

----------------------------------------------------------------------------
(* Requests under fair scheduling                                           *)

\* a step of the handler that serves the request of slot s
Handle(s) ==
    \/ optionsRequest(s)
    \/ methodNotAllowed(s)
    \/ getRequest(s)
    \/ getStat(s)
    \/ serveDirectory(s)
    \/ serveFile(s)
    \/ putRequest(s)
    \/ putMkdirAll(s)
    \/ putStat(s)
    \/ putCreate(s)
    \/ putCopy(s)
    \/ putFinish(s)
    \/ deleteRequest(s)
    \/ deleteStat(s)
    \/ deleteRemove(s)

\* the bodies of the overlapping requests: longer than the copy limit
FairLens == {MaxFileSize + 2}

\* two connections as in InitConc whose requests overlap, with those bodies;
\* or one connection with bodies of every length
FairLoads ==
    { [overlap |-> TRUE, targets |-> ConcTargets, lens |-> FairLens,
       declared |-> FALSE],
      [overlap |-> FALSE, targets |-> ConcTargets, lens |-> BodyLens,
       declared |-> FALSE] }

InitFair ==
    /\ InitServer
    /\ dataDir = DataDir
    /\ readOnly = FALSE
    /\ allowDelete = TRUE
    /\ load \in FairLoads

\* every goroutine that serves a request keeps running
SpecFair ==
    /\ InitFair
    /\ [][Next]_vars
    /\ \A s \in Slots : WF_vars(Handle(s))

\* how far a handler is
Rank(pc) ==
    CASE pc = "recv" -> 0
      [] pc = "mkdir" -> 1
      [] pc = "stat" -> 2
      [] pc \in {"create", "serve", "remove"} -> 3
      [] pc = "copy" -> 4
      [] pc = "done" -> 5
      [] OTHER -> 0

Statuses == {200, 201, 301, 400, 403, 404, 405, 413, 500}

\* C17: every request that was received is answered in the end; a handler
\* only moves forward, works on the filesystem only once its path is
\* resolved, writes one status, when it ends, and nothing happens to a request
\* after that; a PUT never reads more than maxFileSize+1 bytes of its body.
C17_Terminates ==
    /\ \A s \in Slots : []<>(~InFlight(s))
    /\ [][\A s \in Slots :
            req'[s] # req[s] =>
                IF InFlight(s)
                THEN /\ req'[s].pc # "recv"
                     /\ Rank(req'[s].pc) >= Rank(req[s].pc)
                     /\ req'[s].status # req[s].status =>
                            req[s].status = 0 /\ req'[s].pc = "done"
                ELSE req'[s].pc = "recv" /\ req'[s].status = 0]_vars
    /\ [](\A s \in Slots :
            /\ Done(s) => req[s].status \in Statuses
            /\ ~Done(s) => req[s].status = 0 /\ req[s].out = NoOut
            /\ req[s].pc \in {"mkdir", "stat", "create", "copy", "serve", "remove"}
                  => req[s].resolved
            /\ req[s].written <= MaxFileSize + 1
            /\ req[s].written <= req[s].bodyLen)

\* while the requests overlap, a PUT with a body of maxFileSize+2 bytes has
\* ended after maxFileSize+1 of them
C17_Witness ==
    \E s \in Slots :
        /\ load.overlap
        /\ InFlight(3 - s)
        /\ Done(s) /\ req[s].method = "PUT"
        /\ req[s].bodyLen = MaxFileSize + 2
        /\ req[s].written = MaxFileSize + 1
        /\ req[s].status = 413

----------------------------------------------------------------------------
(* PUTs alone: no DELETE is ever issued                                     *)

\* two connections that only PUT the file /a
PutTargets == {<<"PUT", <<"/", "a">> >>}

InitPut ==
    /\ InitServer
    /\ dataDir = DataDir
    /\ readOnly = FALSE
    /\ allowDelete = TRUE
    /\ load = [overlap |-> TRUE, targets |-> PutTargets, lens |-> ConcLens,
               declared |-> FALSE]

NextPut ==
    \E s \in Slots :
        \/ Start(s)
        \/ putRequest(s)
        \/ putMkdirAll(s)
        \/ putStat(s)
        \/ putCreate(s)
        \/ putCopy(s)
        \/ putFinish(s)

SpecPut == InitPut /\ [][NextPut]_vars

\* C19: with PUTs alone, the only step that makes a file disappear is the
\* rollback of a PUT that has written more than maxFileSize bytes to that
\* path: it removes the path without a lock, whoever else wrote the file. (The
\* state the claim names is the witness: a PUT has succeeded, no DELETE was
\* issued, and its path does not exist.)
C19_OnlyRollbackRemoves ==
    [][\A q \in FsPaths :
        (KindOf(fs, q) = "file" /\ KindOf(fs', q) = "none") =>
            \E a \in Slots :
                /\ req[a].method = "PUT" /\ req[a].pc = "copy"
                /\ req[a].path = q
                /\ req[a].written > MaxFileSize
                /\ req'[a].pc = "done"
                /\ req'[a].status = 413]_vars

\* B's PUT of /a has succeeded, A's over-size PUT of /a has been answered 413
\* after its rollback, and there is no /a
C19_Witness ==
    \E a, b \in Slots :
        /\ a # b
        /\ PutOk(b)
        /\ req[b].bodyLen <= MaxFileSize
        /\ Done(a) /\ req[a].method = "PUT" /\ req[a].status = 413
        /\ Did(a, "remove")
        /\ req[a].path = req[b].path
        /\ KindOf(fs, req[b].path) = "none"

----------------------------------------------------------------------------
(* The request path "/", under a data directory given by name and under     *)
(* the default one                                                          *)

RootUrls == { <<"/">>, <<"/", "a">>, <<"/", "a", "/", "b">> }

\* one connection to a writable server that allows deletes
InitRoot ==
    /\ InitServer
    /\ dataDir \in ServedDirs
    /\ readOnly = FALSE
    /\ allowDelete = TRUE
    /\ load = [overlap |-> FALSE, targets |-> Methods \X RootUrls,
               lens |-> {0, 1}, declared |-> TRUE]

SpecRoot == InitRoot /\ [][Next]_vars

\* the path of the data directory as the handlers get it
RootPath == Clean(dataDir)

\* the paths of the filesystem that are the data directory or lie under it
RootPaths ==
    {q \in FsPaths : Contained(Abs(Cwd, q), Abs(Cwd, dataDir))}

\* the step in which the DELETE of "/" of slot s removes, or fails to
RemovesRoot(s) == Removes(s) /\ req[s].url = <<"/">>

\* the DELETE of "/" has succeeded and nothing is left of the data directory
RootGone(s) ==
    /\ req'[s].pc = "done"
    /\ req'[s].status = 200
    /\ req'[s].out = [kind |-> "deleted"]
    /\ \A q \in RootPaths : Stat(fs', q) = "ENOENT"

\* the DELETE of "/" has failed and the filesystem is as it was
RootKept(s) ==
    /\ req'[s].pc = "done"
    /\ req'[s].status = 500
    /\ fs' = fs

\* "/" resolves to the data directory
RootResolves == securePath(dataDir, Cwd, <<"/">>) = Resolved(RootPath)

\* a GET that follows a successful DELETE of "/" is answered 404
GetAfterRootDelete ==
    (/\ last.method = "DELETE" /\ last.status = 200 /\ last.url = <<"/">>
     /\ Done(1) /\ req[1].method = "GET") => req[1].status = 404

\* C20: "/" resolves to the data directory; on a writable server that allows
\* deletes, DELETE "/" with recursive=true is answered 200 and removes the
\* data directory and all that is under it, DELETE "/" without it removes the
\* data directory when it is empty and fails otherwise, and a GET that follows
\* a successful DELETE of "/" is answered 404.
C20_RootDelete ==
    /\ []RootResolves
    /\ [][\A s \in Slots :
            RemovesRoot(s) =>
                IF req[s].recursive \/ ChildrenOf(fs, RootPath) = {}
                THEN RootGone(s)
                ELSE RootKept(s)]_vars
    /\ []GetAfterRootDelete

\* C20, amended: the same, for a data directory whose cleaned path does not
\* end with "."; for the default data directory "./", which is cleaned to
\* ".", every DELETE of "/" is answered 500 and removes nothing.
C20_NamedRootDelete ==
    /\ []RootResolves
    /\ [][\A s \in Slots :
            RemovesRoot(s) =>
                IF endsWithDot(RootPath)
                THEN RootKept(s)
                ELSE IF req[s].recursive \/ ChildrenOf(fs, RootPath) = {}
                     THEN RootGone(s)
                     ELSE RootKept(s)]_vars
    /\ []GetAfterRootDelete

\* under the data directory /d, /a/b was created and the recursive DELETE of
\* "/" that followed has left nothing, /d included
C20_Witness ==
    /\ dataDir = DataDir
    /\ last.method = "PUT" /\ last.status = 201
    /\ last.path = <<"/", "d", "/", "a", "/", "b">>
    /\ Done(1) /\ req[1].method = "DELETE" /\ req[1].recursive
    /\ req[1].url = <<"/">>
    /\ req[1].status = 200
    /\ \A q \in RootPaths : Stat(fs, q) = "ENOENT"

=============================================================================
